---- MODULE Spec2Model ----
(***************************************************************************)
(* Model of main.py: the question/answer GIF pairing and PDF rendering     *)
(* program (class WebPageToPDFConverter and main).                         *)
(*                                                                         *)
(* Strings are sequences of characters so that stem(), endswith() and the  *)
(* f-string "{id}s.gif" are computed, not assumed.  A file name is its     *)
(* stem's characters followed by one extension token (".gif" or ".txt").   *)
(* Floats of get_image_dimensions are exact rationals (num/den), so the    *)
(* rounding of IEEE arithmetic is abstracted away.                         *)
(***************************************************************************)
EXTENDS Integers, Sequences, FiniteSets, TLC

\* ------------------------------------------------------------------ bounds
MaxFiles == 4
MaxCorrupt == 1
MaxPix == 4
MaxBox == 4

\* -------------------------------------------------------------- characters
GIF == ".gif"
TXT == ".txt"
SIMPLE == <<"--simple">>
DefaultFolder == <<"questions_folder">>
DataFolder == <<"data">>
OutputFolder == <<"output_pdfs">>

\* code point of the first character of each token (Python compares str by
\* code point; every token below starts with a different character)
Ord(c) ==
  CASE c = "--simple" -> 45
    [] c = ".gif" -> 46
    [] c = ".txt" -> 46
    [] c = "/" -> 47
    [] c = "1" -> 49
    [] c = "2" -> 50
    [] c = "data" -> 100
    [] c = "output_pdfs" -> 111
    [] c = "questions_folder" -> 113
    [] c = "question_" -> 113
    [] c = ".pdf" -> 46
    [] c = "s" -> 115

\* str.__lt__ : lexicographic order, a proper prefix is smaller
RECURSIVE StrLess(_, _)
StrLess(a, b) ==
  IF a = <<>> THEN b # <<>>
  ELSE IF b = <<>> THEN FALSE
  ELSE IF Head(a) = Head(b) THEN StrLess(Tail(a), Tail(b))
  ELSE Ord(Head(a)) < Ord(Head(b))

\* ------------------------------------------------------------------- paths
\* a path is [dir, name]; str(path) joins them with "/"
Str(p) == p.dir \o <<"/">> \o p.name

\* PurePath.stem: the name without its last suffix; a name that is only a
\* leading-dot token (".gif") has no suffix and is its own stem
Stem(name) == IF Len(name) = 1 THEN name ELSE SubSeq(name, 1, Len(name) - 1)

\* str.endswith('s')
EndsWithS(s) == Len(s) > 0 /\ s[Len(s)] = "s"

\* self.questions_folder / f"{filename}s.gif"
AnswerPath(dir, filename) == [dir |-> dir, name |-> filename \o <<"s", GIF>>]

\* self.questions_folder / f"{question_id}.gif"
QuestionPath(dir, id) == [dir |-> dir, name |-> id \o <<GIF>>]

\* self.output_folder / f"question_{question_id}.pdf"
OutputPath(id) == [dir |-> OutputFolder, name |-> <<"question_">> \o id \o <<".pdf">>]

\* --------------------------------------------------------- input universes
IdUniverse == { <<>>, <<"1">>, <<"2">>, <<"1", "2">>, <<"s">>, <<"1", "s">> }

NameUniverse ==
  { id \o <<GIF>> : id \in IdUniverse } \cup
  { id \o <<"s", GIF>> : id \in IdUniverse } \cup
  { <<"2", "s", TXT>> }

ArgDirs == { DataFolder }
ArgIds == IdUniverse

InsertAt(s, k, x) == SubSeq(s, 1, k) \o <<x>> \o SubSeq(s, k + 1, Len(s))

PositionalUniverse ==
  { <<>> } \cup { <<d>> : d \in ArgDirs } \cup
  { <<d, i>> : d \in ArgDirs, i \in ArgIds }

ArgvUniverse ==
  PositionalUniverse \cup
  UNION { { InsertAt(p, k, SIMPLE) : k \in 0..Len(p) } : p \in PositionalUniverse }


\* ------------------------------------------------------------------- state
VARIABLES
  argv,                    \* sys.argv[1:]
  dirs,                    \* directories that exist on disk
  files,                   \* paths of the files that exist on disk
  corrupt,                 \* files whose content no image library can decode
  pc,                      \* position of the run in main()
  questions_folder,        \* self.questions_folder
  use_simple_mode,         \* main's use_simple_mode
  question_id,             \* main's question_id (single-id mode)
  gif_pairs,               \* process_all_questions' gif_pairs
  idx,                     \* 1-based position of the for loop in gif_pairs
  successful_conversions,  \* process_all_questions' counter
  calls,                   \* the strategy invocations so far, in order
  written,                 \* output documents written to disk
  stdout,                  \* messages printed (order abstracted)
  success,                 \* main's success, read once pc = "single_done"
  summary,                 \* the "successful/total" line: <<successful, total>>
  img, max_width, max_height, dims   \* get_image_dimensions: inputs, result

runVars == << argv, dirs, files, corrupt, pc, questions_folder, use_simple_mode,
              question_id, gif_pairs, idx, successful_conversions, calls,
              written, stdout, success, summary >>
dimVars == << img, max_width, max_height, dims >>
vars == << argv, dirs, files, corrupt, pc, questions_folder, use_simple_mode,
           question_id, gif_pairs, idx, successful_conversions, calls,
           written, stdout, success, summary, img, max_width, max_height, dims >>

\* value of a local that is not assigned yet
Unassigned == << "unassigned" >>
NoDims == [ width |-> << 0, 1 >>, height |-> << 0, 1 >> ]

\* ------------------------------------------------------------ get_gif_pairs
\* self.questions_folder.glob("*.gif")
Glob(dir) == { p \in files : p.dir = dir /\ p.name[Len(p.name)] = GIF }

\* tuple order used by sorted(): element by element, str order on each
TupleLess(t, u) ==
  \/ StrLess(t[1], u[1])
  \/ t[1] = u[1] /\ StrLess(t[2], u[2])
  \/ t[1] = u[1] /\ t[2] = u[2] /\ StrLess(t[3], u[3])

\* sorted(list)
RECURSIVE Sorted(_)
Sorted(S) ==
  IF S = {} THEN <<>>
  ELSE LET m == CHOOSE x \in S : \A y \in S \ {x} : TupleLess(x, y)
       IN  <<m>> \o Sorted(S \ {m})

\* variant: the loop does not skip the answer GIFs
QuestionGifs_NoSkip(dir) == Glob(dir)

\* the question files the loop keeps: stem does not end with 's'
QuestionGifs(dir) == { p \in Glob(dir) : ~EndsWithS(Stem(p.name)) }

\* variant: a pair is emitted without looking for the answer file
get_gif_pairs_NoAnswerCheck(dir) ==
  IF dir \notin dirs THEN <<>>
  ELSE Sorted({ << Stem(p.name), Str(p), Str(AnswerPath(dir, Stem(p.name))) >> :
                p \in QuestionGifs(dir) })

\* the list returned by get_gif_pairs
get_gif_pairs(dir) ==
  IF dir \notin dirs THEN <<>>
  ELSE Sorted({ << Stem(p.name), Str(p), Str(AnswerPath(dir, Stem(p.name))) >> :
                p \in { q \in QuestionGifs(dir) :
                        AnswerPath(dir, Stem(q.name)) \in files } })

\* variant: an unpaired question is skipped silently
get_gif_pairs_prints_Silent(dir) ==
  IF dir \notin dirs THEN { [kind |-> "folder_not_found", about |-> dir] }
  ELSE {}

\* the messages get_gif_pairs prints
get_gif_pairs_prints(dir) ==
  IF dir \notin dirs THEN { [kind |-> "folder_not_found", about |-> dir] }
  ELSE { [kind |-> "no_answer", about |-> Stem(p.name)] :
         p \in { q \in QuestionGifs(dir) :
                 AnswerPath(dir, Stem(q.name)) \notin files } }

\* ------------------------------------------------------ rendering strategies
\* methods of reportlab.pdfgen.canvas.Canvas that create_simple_pdf could call
\* (the library has drawCentredString; it has no drawCentredText)
CanvasMethods == { "setFont", "drawString", "drawCentredString",
                   "drawRightString", "drawImage", "line", "save" }

\* what the document library may do during one primary rendering:
\*   qImage / aImage : Image(path, ...) raises   (only for an undecodable file)
\*   build           : doc.build(content) raises (always when an undecodable
\*                     image is part of the content; possibly otherwise)
PrimaryEnvs(question_path, answer_path) ==
  { e \in [qImage : BOOLEAN, aImage : BOOLEAN, build : BOOLEAN] :
      /\ e.qImage => question_path \in corrupt
      /\ e.aImage => answer_path \in corrupt
      /\ (question_path \in corrupt /\ ~e.qImage) => e.build
      /\ (answer_path \in corrupt /\ ~e.aImage) => e.build }

\* create_pdf_with_gifs: the content built, whether the document was written,
\* and the value returned
create_pdf_with_gifs(question_path, answer_path, id, output_path, e) ==
  [ fn |-> "create_pdf_with_gifs",
    question_path |-> question_path, answer_path |-> answer_path,
    question_id |-> id, output_path |-> output_path,
    content |-> << "Question", "QuestionID",
                   IF e.qImage THEN "QuestionPlaceholder" ELSE "QuestionImage",
                   "Spacer", "Separator", "Answer",
                   IF e.aImage THEN "AnswerPlaceholder" ELSE "AnswerImage" >>,
    saved |-> ~e.build,
    result |-> ~e.build ]

\* create_simple_pdf: the canvas calls in order; the first call of a method the
\* canvas does not have raises AttributeError into the outer except.  Past
\* that, c.drawImage raises for an undecodable file: the question's except
\* draws nothing, the answer's except draws an error text.
create_simple_pdf(question_path, answer_path, id, output_path) ==
  LET drawn ==
        IF "drawCentredText" \notin CanvasMethods THEN <<>>
        ELSE << "Question", "QuestionID" >> \o
             (IF question_path \in corrupt THEN <<>> ELSE << "QuestionImage" >>) \o
             << "Separator", "Answer" >> \o
             (IF answer_path \in corrupt THEN << "AnswerError" >>
                                         ELSE << "AnswerImage" >>)
      ok == "drawCentredText" \in CanvasMethods
  IN [ fn |-> "create_simple_pdf",
       question_path |-> question_path, answer_path |-> answer_path,
       question_id |-> id, output_path |-> output_path,
       content |-> drawn, saved |-> ok, result |-> ok ]

\* files a sequence of calls leaves on disk
RECURSIVE Saved(_)
Saved(cs) ==
  IF cs = <<>> THEN {}
  ELSE (IF Head(cs).saved THEN { Head(cs).output_path } ELSE {}) \cup Saved(Tail(cs))

\* ----------------------------------------------------- get_image_dimensions
\* a float is an exact fraction <<numerator, denominator>>, denominator > 0
Min(a, b) == IF a <= b THEN a ELSE b

\* variant: the landscape branch re-derives the width with a division in
\* place of the multiplication
get_image_dimensions_Divide(image, maxw, maxh) ==
  IF ~image.readable
  THEN [ width |-> << 4 * maxw, 5 >>, height |-> << 4 * maxh, 5 >> ]
  ELSE LET img_width == image.width
           img_height == image.height
       IN IF img_width > img_height
          THEN LET width == Min(maxw, img_width)
               IN  IF width * img_height > maxh * img_width
                   THEN [ width |-> << maxh * img_height, img_width >>,
                          height |-> << maxh, 1 >> ]
                   ELSE [ width |-> << width, 1 >>,
                          height |-> << width * img_height, img_width >> ]
          ELSE LET height == Min(maxh, img_height)
               IN  IF height * img_width > maxw * img_height
                   THEN [ width |-> << maxw, 1 >>,
                          height |-> << maxw * img_height, img_width >> ]
                   ELSE [ width |-> << height * img_width, img_height >>,
                          height |-> << height, 1 >> ]

\* img = [readable, width, height] (PIL's img.size); returns [width, height]
get_image_dimensions(image, maxw, maxh) ==
  IF ~image.readable
  THEN [ width |-> << 4 * maxw, 5 >>, height |-> << 4 * maxh, 5 >> ]
  ELSE LET img_width == image.width
           img_height == image.height
       IN IF img_width > img_height
          THEN LET width == Min(maxw, img_width)
               IN  \* height = width / aspect_ratio ; if height > max_height
                   IF width * img_height > maxh * img_width
                   THEN [ width |-> << maxh * img_width, img_height >>,
                          height |-> << maxh, 1 >> ]
                   ELSE [ width |-> << width, 1 >>,
                          height |-> << width * img_height, img_width >> ]
          ELSE LET height == Min(maxh, img_height)
               IN  \* width = height * aspect_ratio ; if width > max_width
                   IF height * img_width > maxw * img_height
                   THEN [ width |-> << maxw, 1 >>,
                          height |-> << maxw * img_height, img_width >> ]
                   ELSE [ width |-> << height * img_width, img_height >>,
                          height |-> << height, 1 >> ]

\* -------------------------------------------------------------------- main
\* list.remove(x): drops the first occurrence
RECURSIVE Remove(_, _)
Remove(s, x) ==
  IF s = <<>> THEN <<>>
  ELSE IF Head(s) = x THEN Tail(s)
  ELSE << Head(s) >> \o Remove(Tail(s), x)

Contains(s, x) == \E k \in 1..Len(s) : s[k] = x

\* variant: "--simple" is left in args
ParsedArgs_NoRemove(a) == a

\* main()'s args after the "--simple" handling
ParsedArgs(a) == IF Contains(a, SIMPLE) THEN Remove(a, SIMPLE) ELSE a

\* main(): argument parsing, construction of the converter, mode selection
Main ==
  /\ pc = "main"
  /\ LET args == ParsedArgs(argv)
     IN /\ use_simple_mode' = Contains(argv, SIMPLE)
        /\ questions_folder' = IF Len(args) > 0 THEN args[1] ELSE DefaultFolder
        /\ question_id' = IF Len(args) > 1 THEN args[2] ELSE Unassigned
        /\ pc' = IF Len(args) > 1 THEN "single" ELSE "all"
  /\ dirs' = dirs \cup { OutputFolder }
  /\ UNCHANGED << argv, files, corrupt, gif_pairs, idx, successful_conversions,
                  calls, written, stdout, success, summary >>
  /\ UNCHANGED dimVars

\* the strategy calls of process_single_question once both files exist
process_single_calls(question_path, answer_path, id, output_path, simple, e) ==
  IF simple
  THEN << create_simple_pdf(question_path, answer_path, id, output_path) >>
  ELSE LET first == create_pdf_with_gifs(question_path, answer_path, id, output_path, e)
       IN  IF ~first.result
           THEN << first, create_simple_pdf(question_path, answer_path, id, output_path) >>
           ELSE << first >>

\* variant: only the question file is looked for
missing_file_QuestionOnly(question_path, answer_path) ==
  IF question_path \notin files THEN "question" ELSE "none"

\* the existence checks of process_single_question: which file is reported
\* missing ("none" when both exist)
missing_file(question_path, answer_path) ==
  IF question_path \notin files THEN "question"
  ELSE IF answer_path \notin files THEN "answer"
  ELSE "none"

\* process_single_question, and main's report of its result
ProcessSingle ==
  /\ pc = "single"
  /\ LET question_path == QuestionPath(questions_folder, question_id)
         answer_path == AnswerPath(questions_folder, question_id)
         output_path == OutputPath(question_id)
         missing == missing_file(question_path, answer_path)
     IN IF missing = "question"
        THEN /\ stdout' = stdout \cup { [kind |-> "question_not_found",
                                         about |-> Str(question_path)] }
             /\ success' = FALSE
             /\ UNCHANGED << calls, written >>
        ELSE IF missing = "answer"
        THEN /\ stdout' = stdout \cup { [kind |-> "answer_not_found",
                                         about |-> Str(answer_path)] }
             /\ success' = FALSE
             /\ UNCHANGED << calls, written >>
        ELSE \E e \in PrimaryEnvs(Str(question_path), Str(answer_path)) :
               LET cs == process_single_calls(Str(question_path), Str(answer_path),
                                              question_id, Str(output_path),
                                              use_simple_mode, e)
               IN /\ calls' = calls \o cs
                  /\ written' = written \cup Saved(cs)
                  /\ success' = cs[Len(cs)].result
                  /\ stdout' = stdout \cup { [kind |-> "processing",
                                              about |-> question_id] }
  /\ pc' = "single_done"
  /\ UNCHANGED << argv, dirs, files, corrupt, questions_folder, use_simple_mode,
                  question_id, gif_pairs, idx, successful_conversions, summary >>
  /\ UNCHANGED dimVars

\* process_all_questions up to the loop: discovery and the empty check
ProcessAllStart ==
  /\ pc = "all"
  /\ gif_pairs' = get_gif_pairs(questions_folder)
  /\ stdout' = stdout \cup get_gif_pairs_prints(questions_folder) \cup
               (IF get_gif_pairs(questions_folder) = <<>>
                THEN { [kind |-> "no_pairs", about |-> questions_folder] }
                ELSE { [kind |-> "found", about |-> questions_folder] })
  /\ IF get_gif_pairs(questions_folder) = <<>>
     THEN pc' = "all_done" /\ UNCHANGED << idx, successful_conversions >>
     ELSE pc' = "loop" /\ idx' = 1 /\ successful_conversions' = 0
  /\ UNCHANGED << argv, dirs, files, corrupt, questions_folder, use_simple_mode,
                  question_id, calls, written, success, summary >>
  /\ UNCHANGED dimVars

\* the strategy calls of one iteration of process_all_questions' loop
process_all_calls(question_path, answer_path, id, output_path, simple, e) ==
  IF simple
  THEN << create_simple_pdf(question_path, answer_path, id, output_path) >>
  ELSE LET first == create_pdf_with_gifs(question_path, answer_path, id, output_path, e)
       IN  IF ~first.result
           THEN << first, create_simple_pdf(question_path, answer_path, id, output_path) >>
           ELSE << first >>

\* variant: the counter is bumped whatever the outcome
Count_Always(n, ok) == n + 1

\* the counter after an iteration whose last call returned ok
Count(n, ok) == IF ok THEN n + 1 ELSE n

\* one iteration of the for loop of process_all_questions
ProcessPair ==
  /\ pc = "loop"
  /\ idx <= Len(gif_pairs)
  /\ LET id == gif_pairs[idx][1]
         question_path == gif_pairs[idx][2]
         answer_path == gif_pairs[idx][3]
         output_path == Str(OutputPath(id))
     IN \E e \in PrimaryEnvs(question_path, answer_path) :
          LET cs == process_all_calls(question_path, answer_path, id, output_path,
                                      use_simple_mode, e)
          IN /\ calls' = calls \o cs
             /\ written' = written \cup Saved(cs)
             /\ successful_conversions' =
                  Count(successful_conversions, cs[Len(cs)].result)
             /\ stdout' = stdout \cup { [kind |-> "processing", about |-> id] }
  /\ idx' = idx + 1
  /\ UNCHANGED << argv, dirs, files, corrupt, pc, questions_folder,
                  use_simple_mode, question_id, gif_pairs, success, summary >>
  /\ UNCHANGED dimVars

\* variant: the loop is left as soon as a pair has failed
Summary_BreakOnFailure ==
  /\ pc = "loop"
  /\ \/ idx > Len(gif_pairs)
     \/ calls # <<>> /\ ~calls[Len(calls)].result
  /\ summary' = << successful_conversions, Len(gif_pairs) >>
  /\ stdout' = stdout \cup { [kind |-> "output_folder", about |-> OutputFolder] }
  /\ pc' = "all_done"
  /\ UNCHANGED << argv, dirs, files, corrupt, questions_folder, use_simple_mode,
                  question_id, gif_pairs, idx, successful_conversions, calls,
                  written, success >>
  /\ UNCHANGED dimVars

\* the summary printed after the loop
Summary ==
  /\ pc = "loop"
  /\ idx > Len(gif_pairs)
  /\ summary' = << successful_conversions, Len(gif_pairs) >>
  /\ stdout' = stdout \cup { [kind |-> "output_folder", about |-> OutputFolder] }
  /\ pc' = "all_done"
  /\ UNCHANGED << argv, dirs, files, corrupt, questions_folder, use_simple_mode,
                  question_id, gif_pairs, idx, successful_conversions, calls,
                  written, success >>
  /\ UNCHANGED dimVars

\* ----------------------------------------------------------- initial states
FolderDirs == { DefaultFolder, DataFolder }

PathsIn(dir) == { [dir |-> dir, name |-> n] : n \in NameUniverse }

\* subsets of S with at most n elements
RECURSIVE SubsetsUpTo(_, _)
SubsetsUpTo(S, n) ==
  IF n = 0 \/ S = {} THEN { {} }
  ELSE LET x == CHOOSE y \in S : TRUE
       IN  SubsetsUpTo(S \ {x}, n) \cup
           { T \cup {x} : T \in SubsetsUpTo(S \ {x}, n - 1) }

IdleDims ==
  /\ img = [readable |-> TRUE, width |-> 1, height |-> 1]
  /\ max_width = 1
  /\ max_height = 1
  /\ dims = NoDims

\* the process starts: a command line of A, and a disk on which at most one
\* of the two source folders exists
InitFrom(A) ==
  /\ argv \in A
  /\ \/ dirs = {} /\ files = {}
     \/ \E d \in FolderDirs :
          /\ dirs = { d }
          /\ files \in SubsetsUpTo(PathsIn(d), MaxFiles)
  /\ corrupt \in SubsetsUpTo({ Str(p) : p \in files }, MaxCorrupt)
  /\ pc = "main"
  /\ questions_folder = Unassigned
  /\ use_simple_mode = FALSE
  /\ question_id = Unassigned
  /\ gif_pairs = <<>>
  /\ idx = 0
  /\ successful_conversions = 0
  /\ calls = <<>>
  /\ written = {}
  /\ stdout = {}
  /\ success = FALSE
  /\ summary = <<>>
  /\ IdleDims

Init == InitFrom(ArgvUniverse)

Next ==
  \/ Main
  \/ ProcessSingle
  \/ ProcessAllStart
  \/ ProcessPair
  \/ Summary

Spec == Init /\ [][Next]_vars

\* ------------------------------------------------ the batch mode on its own
\* command lines without a question_id: main() takes process_all_questions
BatchArgv == { a \in ArgvUniverse : Len(SelectSeq(a, LAMBDA t : t # SIMPLE)) <= 1 }

InitBatch == InitFrom(BatchArgv)

NextBatch ==
  \/ Main
  \/ ProcessAllStart
  \/ ProcessPair
  \/ Summary

\* the run is sequential and nothing blocks: every enabled step is taken
BatchSpec == InitBatch /\ [][NextBatch]_vars /\ WF_vars(NextBatch)

\* --------------------------------------- get_image_dimensions on its own
IdleRun ==
  /\ argv = <<>> /\ dirs = {} /\ files = {} /\ corrupt = {}
  /\ pc = "dims" /\ questions_folder = Unassigned /\ use_simple_mode = FALSE
  /\ question_id = Unassigned /\ gif_pairs = <<>> /\ idx = 0
  /\ successful_conversions = 0 /\ calls = <<>> /\ written = {}
  /\ stdout = {} /\ success = FALSE /\ summary = <<>>

InitDim ==
  /\ IdleRun
  /\ img \in [readable : BOOLEAN, width : 1..MaxPix, height : 1..MaxPix]
  /\ max_width \in 1..MaxBox
  /\ max_height \in 1..MaxBox
  /\ dims = NoDims

GetImageDimensions ==
  /\ pc = "dims"
  /\ dims' = get_image_dimensions(img, max_width, max_height)
  /\ pc' = "dims_done"
  /\ UNCHANGED << img, max_width, max_height >>
  /\ UNCHANGED << argv, dirs, files, corrupt, questions_folder, use_simple_mode,
                  question_id, gif_pairs, idx, successful_conversions, calls,
                  written, stdout, success, summary >>

NextDim == GetImageDimensions

SpecDim == InitDim /\ [][NextDim]_vars


\* ===================================================================== claims
\* ------------------------------------------------------- shared vocabulary
\* discovery has run (process_all_questions is past get_gif_pairs)
Discovered == pc \in { "loop", "all_done" }

\* the ids for which both {id}.gif and {id}s.gif are files of the directory,
\* read off the file names as the naming convention states them
PairedIds(dir) ==
  { id \in { SubSeq(p.name, 1, Len(p.name) - 1) : p \in Glob(dir) } :
      /\ [dir |-> dir, name |-> id \o <<GIF>>] \in files
      /\ [dir |-> dir, name |-> id \o <<"s", GIF>>] \in files }

\* the tuple the naming convention asks for
PairTuple(dir, id) ==
  << id, dir \o <<"/">> \o id \o <<GIF>>, dir \o <<"/">> \o id \o <<"s", GIF>> >>

Range(seq) == { seq[k] : k \in 1..Len(seq) }

NoDuplicates(seq) == \A i, j \in 1..Len(seq) : i # j => seq[i] # seq[j]

AscendingById(seq) ==
  \A i, j \in 1..Len(seq) : i < j => StrLess(seq[i][1], seq[j][1])

\* an id that the file naming cannot confuse with an answer file
PlainId(id) == id # <<>> /\ ~EndsWithS(id)

ReachedRendering == pc = "single_done" /\ Len(calls) >= 1

FracLeq(f, n) == f[1] <= n * f[2]
SameRatio(f, g, a, b) == f[1] * g[2] * b = g[1] * f[2] * a

\* C2: for a readable image and positive maxima, a landscape image gets
\* width <= max_width, a portrait or square image gets height <= max_height,
\* and width / height equals the image's pixel width / pixel height.
C2_Dimensions ==
  (pc = "dims_done" /\ img.readable) =>
    /\ img.width > img.height => FracLeq(dims.width, max_width)
    /\ img.height >= img.width => FracLeq(dims.height, max_height)
    /\ SameRatio(dims.width, dims.height, img.width, img.height)

\* a landscape image whose width-first height exceeded max_height, so that
\* the size was re-derived from the height
C2_Witness ==
  /\ pc = "dims_done"
  /\ img.readable
  /\ img.width > img.height
  /\ dims.height = << max_height, 1 >>
  /\ dims.width # << max_width, 1 >>
  /\ dims.width[1] # dims.width[2] * img.width

\* ------------------------------------------------------------------ batch
IsPrimary(c) == c.fn = "create_pdf_with_gifs"
IsFallback(c) == c.fn = "create_simple_pdf"

\* C3 (as stated): without --simple, every failed primary call is followed at
\* once by a fallback call with the same paths, id and output path, that
\* fallback writes the document and returns success (so the pair counts), and
\* every fallback call comes right after a failed primary call for its pair.
C3_Claim ==
  (pc # "main" /\ ~use_simple_mode) =>
    /\ \A k \in 1..Len(calls) :
         (IsPrimary(calls[k]) /\ ~calls[k].result) =>
           /\ k < Len(calls)
           /\ IsFallback(calls[k + 1])
           /\ calls[k + 1].question_path = calls[k].question_path
           /\ calls[k + 1].answer_path = calls[k].answer_path
           /\ calls[k + 1].question_id = calls[k].question_id
           /\ calls[k + 1].output_path = calls[k].output_path
           /\ calls[k + 1].result
           /\ calls[k + 1].output_path \in written
    /\ \A k \in 1..Len(calls) :
         IsFallback(calls[k]) =>
           /\ k > 1
           /\ IsPrimary(calls[k - 1])
           /\ ~calls[k - 1].result
           /\ calls[k - 1].question_id = calls[k].question_id

\* the pairs the loop has finished, and those of them some strategy rendered
Processed == 1..(idx - 1)
Rendered ==
  { k \in Processed :
      \E c \in Range(calls) : c.question_id = gif_pairs[k][1] /\ c.result }

\* C4: throughout the loop and at the summary, successful_conversions is the
\* number of processed pairs for which the primary or the fallback strategy
\* returned success, and lies between 0 and the number of discovered pairs.
C4_SuccessCount ==
  (Discovered /\ gif_pairs # <<>>) =>
    /\ successful_conversions = Cardinality(Rendered)
    /\ 0 <= successful_conversions
    /\ successful_conversions <= Len(gif_pairs)
    /\ pc = "all_done" => summary = << Cardinality(Rendered), Len(gif_pairs) >>

\* the summary of a batch of two pairs of which one was rendered and one not
C4_Witness ==
  /\ pc = "all_done"
  /\ summary = << 1, 2 >>
  /\ \E c \in Range(calls) : ~c.result

\* the first strategy call of each pair: one entry per attempt
Attempts ==
  SelectSeq(calls, LAMBDA c : IF use_simple_mode THEN IsFallback(c) ELSE IsPrimary(c))

\* every processed pair was attempted once, in the order of gif_pairs
AttemptedInOrder ==
  (Discovered /\ gif_pairs # <<>>) =>
    /\ Len(Attempts) = idx - 1
    /\ \A k \in 1..Len(Attempts) : Attempts[k].question_id = gif_pairs[k][1]
    /\ \A i, j \in 1..Len(Attempts) :
         i < j => StrLess(Attempts[i].question_id, Attempts[j].question_id)
    /\ pc = "all_done" => Len(Attempts) = Len(gif_pairs)

\* C5: whatever the outcome of each pair, every pair of gif_pairs is attempted
\* exactly once, in ascending id order, and a batch that entered the loop
\* reaches the summary.
C5_BatchContinues ==
  /\ []AttemptedInOrder
  /\ (pc = "loop") ~> (pc = "all_done" /\ summary # <<>>)

\* the summary of a batch whose first pair failed under both strategies and
\* whose second pair was still attempted
C5_Witness ==
  /\ pc = "all_done"
  /\ Len(gif_pairs) = 2
  /\ Len(calls) >= 3
  /\ ~calls[1].result /\ ~calls[2].result
  /\ calls[3].question_id = gif_pairs[2][1]

\* ------------------------------------------------------------ single-id mode
\* C7: process_single_question with {id}.gif or {id}s.gif missing prints an
\* error and returns False without invoking a strategy or writing a file;
\* with both files present at least one strategy is invoked.
C7_SingleMissing ==
  pc = "single_done" =>
    LET q == [dir |-> questions_folder, name |-> question_id \o <<GIF>>]
        a == [dir |-> questions_folder, name |-> question_id \o <<"s", GIF>>]
    IN /\ (q \notin files \/ a \notin files) =>
            /\ success = FALSE
            /\ calls = <<>>
            /\ written = {}
            /\ \E m \in stdout : m.kind \in { "question_not_found", "answer_not_found" }
       /\ (q \in files /\ a \in files) => Len(calls) >= 1

\* single-id mode stopped at the answer check: the question file exists
C7_Witness ==
  /\ pc = "single_done"
  /\ [dir |-> questions_folder, name |-> question_id \o <<GIF>>] \in files
  /\ [kind |-> "answer_not_found",
      about |-> questions_folder \o <<"/">> \o question_id \o <<"s", GIF>>] \in stdout

\* ----------------------------------------------------------------- --simple
\* the command line without its options
Positional == SelectSeq(argv, LAMBDA t : t # SIMPLE)

\* C8: with --simple on the command line the primary strategy is never
\* invoked (every call is create_simple_pdf), and the other arguments are read
\* as source_dir then question_id.
C8_SimpleOnly ==
  (pc # "main" /\ Contains(argv, SIMPLE)) =>
    /\ use_simple_mode
    /\ \A c \in Range(calls) : IsFallback(c)
    /\ questions_folder = IF Len(Positional) > 0 THEN Positional[1] ELSE DefaultFolder
    /\ Len(Positional) > 1 =>
         /\ pc \in { "single", "single_done" }
         /\ question_id = Positional[2]
         /\ \A c \in Range(calls) : c.question_id = Positional[2]
    /\ Len(Positional) <= 1 => pc \in { "all", "loop", "all_done" }

\* "--simple" came first, before source_dir and question_id, and the pair was
\* rendered
C8_Witness ==
  /\ pc = "single_done"
  /\ Len(argv) = 3
  /\ argv[1] = SIMPLE
  /\ Len(calls) = 1
  /\ IsFallback(calls[1])

\* C9 (as stated): in create_simple_pdf an undecodable question image and an
\* undecodable answer image each leave an inline error message at the slot of
\* that image, the separator, the Answer heading and the other image are still
\* drawn, and the page is saved with result success.
Has(c, element) == \E k \in 1..Len(c.content) : c.content[k] = element

C9_Claim ==
  \A c \in Range(calls) :
    IsFallback(c) =>
      /\ c.question_path \in corrupt =>
           /\ Has(c, "QuestionError")
           /\ Has(c, "Separator") /\ Has(c, "Answer")
           /\ c.answer_path \notin corrupt => Has(c, "AnswerImage")
           /\ c.saved /\ c.result
      /\ c.answer_path \in corrupt =>
           /\ Has(c, "AnswerError")
           /\ Has(c, "Separator") /\ Has(c, "Answer")
           /\ c.question_path \notin corrupt => Has(c, "QuestionImage")
           /\ c.saved /\ c.result

====
